---- MODULE Spec2Model ----
(***************************************************************************)
(* Model of src/base/util.ts of the raydium SDK: the transfer-fee engine   *)
(* (getTransferAmountFee, BNDivCeil, minExpirationTime) and the two batch  *)
(* transaction builders (buildSimpleTransaction, buildTransaction).        *)
(*                                                                         *)
(* Conventions.                                                            *)
(*  - A value of type `T | undefined` is a set: {} is undefined, {v} is v. *)
(*  - BN and bigint values are unbounded integers; every value used here   *)
(*    is far below 2^53, so Number(bigint) and new BN(x.toString()) are    *)
(*    exact and are written as the value itself.                           *)
(*  - A JavaScript number that results from `x * 400 / 1000` is kept as    *)
(*    the exact rational [num |-> x * 400, den |-> 1000].                  *)
(***************************************************************************)
EXTENDS Integers, Sequences, FiniteSets, TLC

VARIABLES
  \* getTransferAmountFee: the arguments of the call and what it returned
  amount, feeConfig, epochInfo, addFee, res, feeOnly,
  \* BNDivCeil: the arguments and the quotient returned
  bn1, bn2, quo,
  \* minExpirationTime: the arguments and the value returned
  expirationTime1, expirationTime2, minExp,
  \* buildSimpleTransaction / buildTransaction: arguments, locals, outcome
  fn, makeTxVersion, innerTransactions, recentBlockhash, lookupTableCache,
  pc, idx, txList, reported, thrown

feeVars   == <<amount, feeConfig, epochInfo, addFee, res, feeOnly>>
divVars   == <<bn1, bn2, quo>>
minVars   == <<expirationTime1, expirationTime2, minExp>>
buildVars == <<fn, makeTxVersion, innerTransactions, recentBlockhash,
               lookupTableCache, pc, idx, txList, reported, thrown>>
vars      == <<feeVars, divVars, minVars, buildVars>>

(***************************************************************************)
(* Bounds of the model.                                                    *)
(***************************************************************************)
AmountStep      == 3333
MaxAmountK      == 3
MaxAmountJ      == 2
MaxEpoch        == 2
MaxSlotsInEpoch == 2
MaxAbsoluteSlot == 1
MaxDividend     == 30
MaxDivisor      == 8
MaxExpiration   == 6
MaxBatch        == 3

(***************************************************************************)
(* Program constants.                                                      *)
(***************************************************************************)
POINT == 10000

(***************************************************************************)
(* Input domains.                                                          *)
(***************************************************************************)
Amounts == {k * AmountStep + j : k \in 0..MaxAmountK, j \in 0..MaxAmountJ}

BasisPoints == {0, 1, 100, 5000, 9999, POINT}

MaximumFees == {0, 1, 50, 20000}

TransferFee(e) ==
  [epoch : {e}, maximumFee : MaximumFees, transferFeeBasisPoints : BasisPoints]

TransferFeeConfig ==
  UNION {[olderTransferFee : TransferFee(0), newerTransferFee : TransferFee(e)]
           : e \in 0..MaxEpoch}

EpochInfo ==
  [epoch : 0..MaxEpoch, slotsInEpoch : 1..MaxSlotsInEpoch,
   absoluteSlot : 0..MaxAbsoluteSlot]

(***************************************************************************)
(* BNDivCeil: bn1.divmod(bn2), one more when the remainder is positive.    *)
(* bn.js asserts that the divisor is not zero.                             *)
(***************************************************************************)
divmodThrows(bn) == bn = 0

BNDivCeil_floor(a, b) == a \div b

BNDivCeil_alwaysUp(a, b) == (a \div b) + 1

BNDivCeil(a, b) ==
  LET div == a \div b
      mod == a % b
  IN  IF mod > 0 THEN div + 1 ELSE div

(***************************************************************************)
(* getTransferAmountFee and its parts.                                     *)
(***************************************************************************)
nowFeeConfig_lessOrEqual(cfg, info) ==
  IF info.epoch <= cfg.newerTransferFee.epoch
    THEN cfg.olderTransferFee
    ELSE cfg.newerTransferFee

nowFeeConfig(cfg, info) ==
  IF info.epoch < cfg.newerTransferFee.epoch
    THEN cfg.olderTransferFee
    ELSE cfg.newerTransferFee

expirationTime(cfg, info) ==
  IF info.epoch < cfg.newerTransferFee.epoch
    THEN {[num |-> (cfg.newerTransferFee.epoch * info.slotsInEpoch
                      - info.absoluteSlot) * 400,
           den |-> 1000]}
    ELSE {}

TAmount_noClamp(_TAmount, amt, nowMaxFee) == _TAmount

TAmount(_TAmount, amt, nowMaxFee) ==
  IF _TAmount - amt > nowMaxFee THEN amt + nowMaxFee ELSE _TAmount

fee_noCap(_fee, maxFee) == _fee

fee(_fee, maxFee) ==
  IF _fee > maxFee THEN maxFee ELSE _fee

Threw == [threw |-> TRUE, amount |-> {}, fee |-> {}, expirationTime |-> {}]

Returned(amt, f, exp) ==
  [threw |-> FALSE, amount |-> {amt}, fee |-> f, expirationTime |-> exp]

\* the addFee branch
grossUp_noFullFeeCase(amt, now, exp) ==
  LET maxFee == now.maximumFee
      bp     == now.transferFeeBasisPoints
  IN  IF divmodThrows(POINT - bp) THEN Threw
      ELSE LET _TAmount == BNDivCeil(amt * POINT, POINT - bp)
               T        == TAmount(_TAmount, amt, maxFee)
               _fee     == BNDivCeil(T * bp, POINT)
           IN  Returned(T, {fee(_fee, maxFee)}, exp)

grossUp_fullFeeKeepsAmount(amt, now, exp) ==
  LET maxFee == now.maximumFee
      bp     == now.transferFeeBasisPoints
  IN  IF bp = POINT
        THEN Returned(amt, {maxFee}, exp)
        ELSE IF divmodThrows(POINT - bp) THEN Threw
        ELSE LET _TAmount == BNDivCeil(amt * POINT, POINT - bp)
                 T        == TAmount(_TAmount, amt, maxFee)
                 _fee     == BNDivCeil(T * bp, POINT)
             IN  Returned(T, {fee(_fee, maxFee)}, exp)

grossUp(amt, now, exp) ==
  LET maxFee == now.maximumFee
      bp     == now.transferFeeBasisPoints
  IN  IF bp = POINT
        THEN Returned(amt + maxFee, {maxFee}, exp)
        ELSE IF divmodThrows(POINT - bp) THEN Threw
        ELSE LET _TAmount == BNDivCeil(amt * POINT, POINT - bp)
                 T        == TAmount(_TAmount, amt, maxFee)
                 _fee     == BNDivCeil(T * bp, POINT)
             IN  Returned(T, {fee(_fee, maxFee)}, exp)

\* the else branch of addFee
feeOnlyMode(amt, now, exp) ==
  LET maxFee == now.maximumFee
      bp     == now.transferFeeBasisPoints
      _fee   == BNDivCeil(amt * bp, POINT)
  IN  Returned(amt, {fee(_fee, maxFee)}, exp)

getTransferAmountFee_zeroFeeWhenAbsent(amt, optCfg, info, add) ==
  IF optCfg = {} THEN Returned(amt, {0}, {})
  ELSE
    LET cfg == CHOOSE c \in optCfg : TRUE
        now == nowFeeConfig(cfg, info)
        exp == expirationTime(cfg, info)
    IN  IF add THEN grossUp(amt, now, exp) ELSE feeOnlyMode(amt, now, exp)

getTransferAmountFee(amt, optCfg, info, add) ==
  IF optCfg = {} THEN Returned(amt, {}, {})
  ELSE
    LET cfg == CHOOSE c \in optCfg : TRUE
        now == nowFeeConfig(cfg, info)
        exp == expirationTime(cfg, info)
    IN  IF add THEN grossUp(amt, now, exp) ELSE feeOnlyMode(amt, now, exp)

(***************************************************************************)
(* minExpirationTime over `number | undefined`; Math.min compares the two  *)
(* numbers by value.                                                       *)
(***************************************************************************)
NumberLess(x, y) == x.num * y.den < y.num * x.den

MathMin_first(x, y) == x

MathMin(x, y) == IF NumberLess(y, x) THEN y ELSE x

minExpirationTime(e1, e2) ==
  IF e1 = {} THEN e2
  ELSE IF e2 = {} THEN e1
  ELSE LET x == CHOOSE v \in e1 : TRUE
           y == CHOOSE v \in e2 : TRUE
       IN  {MathMin(x, y)}

(***************************************************************************)
(* _makeTransaction: the transaction built for one inner transaction, or   *)
(* nothing when the construction throws.  `constructible` says whether the *)
(* web3.js calls (add, sign, compileToV0Message) succeed for the item.     *)
(***************************************************************************)
LTAddresses == {"lt1"}

InnerTransaction == [constructible : BOOLEAN, lookupTableAddress : SUBSET LTAddresses]

RECURSIVE SeqsUpTo(_, _)
SeqsUpTo(S, n) ==
  IF n = 0 THEN {<<>>}
  ELSE LET shorter == SeqsUpTo(S, n - 1)
       IN  shorter \cup {Append(q, x) : q \in {t \in shorter : Len(t) = n - 1}, x \in S}

_makeTransaction(version, i, item) ==
  IF version = "LEGACY" \/ version = "V0"
    THEN IF item.constructible THEN {[item |-> i, version |-> version]} ELSE {}
    ELSE {}

(***************************************************************************)
(* Idle values of the parts a specification does not exercise.             *)
(***************************************************************************)
FeeIdle ==
  /\ amount = 0 /\ feeConfig = {} /\ addFee = FALSE
  /\ epochInfo = [epoch |-> 0, slotsInEpoch |-> 1, absoluteSlot |-> 0]
  /\ res = {} /\ feeOnly = {}

DivIdle == bn1 = 0 /\ bn2 = 1 /\ quo = {}

MinIdle == expirationTime1 = {} /\ expirationTime2 = {} /\ minExp = {}

BuildIdle ==
  /\ fn = "buildSimpleTransaction" /\ makeTxVersion = "LEGACY"
  /\ innerTransactions = <<>> /\ recentBlockhash = {} /\ lookupTableCache = {}
  /\ pc = "done" /\ idx = 1 /\ txList = <<>> /\ reported = <<>>
  /\ thrown = "none"

(***************************************************************************)
(* The fee engine: a call of getTransferAmountFee on arbitrary arguments,  *)
(* and a caller that asks for the fee of the gross amount a gross-up call  *)
(* returned (fee-only mode, same fee config and epoch).                    *)
(***************************************************************************)
InitFee ==
  /\ amount \in Amounts
  /\ feeConfig \in {{}} \cup {{c} : c \in TransferFeeConfig}
  /\ epochInfo \in EpochInfo
  /\ addFee \in BOOLEAN
  /\ res = {} /\ feeOnly = {}
  /\ DivIdle /\ MinIdle /\ BuildIdle

CallGetTransferAmountFee ==
  /\ res = {}
  /\ res' = {getTransferAmountFee(amount, feeConfig, epochInfo, addFee)}
  /\ UNCHANGED <<amount, feeConfig, epochInfo, addFee, feeOnly>>
  /\ UNCHANGED <<divVars, minVars, buildVars>>

CallFeeOnlyOnResult ==
  /\ addFee /\ feeOnly = {}
  /\ \E r \in res :
       /\ ~r.threw
       /\ \E gross \in r.amount :
            feeOnly' = {getTransferAmountFee(gross, feeConfig, epochInfo, FALSE)}
  /\ UNCHANGED <<amount, feeConfig, epochInfo, addFee, res>>
  /\ UNCHANGED <<divVars, minVars, buildVars>>

NextFee == CallGetTransferAmountFee \/ CallFeeOnlyOnResult

Spec == InitFee /\ [][NextFee]_vars

(***************************************************************************)
(* BNDivCeil on its own.                                                   *)
(***************************************************************************)
InitDiv ==
  /\ bn1 \in 0..MaxDividend
  /\ bn2 \in 1..MaxDivisor
  /\ quo = {}
  /\ FeeIdle /\ MinIdle /\ BuildIdle

CallBNDivCeil ==
  /\ quo = {} /\ ~divmodThrows(bn2)
  /\ quo' = {BNDivCeil(bn1, bn2)}
  /\ UNCHANGED <<bn1, bn2, feeVars, minVars, buildVars>>

NextDiv == CallBNDivCeil

SpecDiv == InitDiv /\ [][NextDiv]_vars

(***************************************************************************)
(* minExpirationTime on the expiration times getTransferAmountFee makes.   *)
(***************************************************************************)
Expirations ==
  {{}} \cup {{[num |-> s * 400, den |-> 1000]}
               : s \in (0 - MaxExpiration)..MaxExpiration}

InitMin ==
  /\ expirationTime1 \in Expirations
  /\ expirationTime2 \in Expirations
  /\ minExp = {}
  /\ FeeIdle /\ DivIdle /\ BuildIdle

CallMinExpirationTime ==
  /\ minExp = {}
  /\ minExp' = {minExpirationTime(expirationTime1, expirationTime2)}
  /\ UNCHANGED <<expirationTime1, expirationTime2, feeVars, divVars, buildVars>>

NextMin == CallMinExpirationTime

SpecMin == InitMin /\ [][NextMin]_vars

(***************************************************************************)
(* buildSimpleTransaction and buildTransaction.  pc is the position in the *)
(* async function: entry, the await of getLatestBlockhash, the await of    *)
(* getMultipleLookupTableInfo (buildTransaction only), the loop over the   *)
(* inner transactions, done.  thrown is "none" when the promise resolved   *)
(* with txList and names the throwing step when it rejected.               *)
(***************************************************************************)
InitBuild ==
  /\ fn \in {"buildSimpleTransaction", "buildTransaction"}
  /\ makeTxVersion \in {"V0", "LEGACY", "other"}
  /\ innerTransactions \in SeqsUpTo(InnerTransaction, MaxBatch)
  /\ recentBlockhash \in {{}, {"hash"}}
  /\ lookupTableCache \in SUBSET LTAddresses
  /\ pc = "entry" /\ idx = 1 /\ txList = <<>> /\ reported = <<>>
  /\ thrown = "none"
  /\ FeeIdle /\ DivIdle /\ MinIdle

CheckTxVersion ==
  /\ pc = "entry"
  /\ IF makeTxVersion # "V0" /\ makeTxVersion # "LEGACY"
       THEN pc' = "done" /\ thrown' = "version"
       ELSE pc' = "blockhash" /\ thrown' = thrown
  /\ UNCHANGED <<fn, makeTxVersion, innerTransactions, recentBlockhash,
                 lookupTableCache, idx, txList, reported>>
  /\ UNCHANGED <<feeVars, divVars, minVars>>

AfterBlockhash == IF fn = "buildTransaction" THEN "lookup" ELSE "loop"

UseRecentBlockhash ==
  /\ pc = "blockhash" /\ recentBlockhash # {}
  /\ pc' = AfterBlockhash
  /\ UNCHANGED <<fn, makeTxVersion, innerTransactions, recentBlockhash,
                 lookupTableCache, idx, txList, reported, thrown>>
  /\ UNCHANGED <<feeVars, divVars, minVars>>

GetLatestBlockhash ==
  /\ pc = "blockhash" /\ recentBlockhash = {}
  /\ \/ recentBlockhash' = {"hash"} /\ pc' = AfterBlockhash /\ thrown' = thrown
     \/ recentBlockhash' = recentBlockhash /\ pc' = "done" /\ thrown' = "blockhash"
  /\ UNCHANGED <<fn, makeTxVersion, innerTransactions, lookupTableCache,
                 idx, txList, reported>>
  /\ UNCHANGED <<feeVars, divVars, minVars>>

lta == UNION {innerTransactions[i].lookupTableAddress : i \in DOMAIN innerTransactions}

needCacheLTA == lta \ lookupTableCache

CacheLookupTables ==
  /\ pc = "lookup"
  /\ IF needCacheLTA = {}
       THEN pc' = "loop" /\ UNCHANGED <<lookupTableCache, thrown>>
       ELSE \/ /\ \E got \in SUBSET needCacheLTA :
                    lookupTableCache' = lookupTableCache \cup got
               /\ pc' = "loop" /\ thrown' = thrown
            \/ pc' = "done" /\ thrown' = "lookup" /\ UNCHANGED lookupTableCache
  /\ UNCHANGED <<fn, makeTxVersion, innerTransactions, recentBlockhash,
                 idx, txList, reported>>
  /\ UNCHANGED <<feeVars, divVars, minVars>>

BuildSimpleItem ==
  /\ pc = "loop" /\ fn = "buildSimpleTransaction"
  /\ idx <= Len(innerTransactions)
  /\ LET tx == _makeTransaction(makeTxVersion, idx, innerTransactions[idx])
     IN  IF tx # {}
           THEN /\ txList' = Append(txList, CHOOSE t \in tx : TRUE)
                /\ reported' = reported
           ELSE /\ txList' = txList
                /\ reported' = Append(reported, idx)
  /\ idx' = idx + 1
  /\ UNCHANGED <<fn, makeTxVersion, innerTransactions, recentBlockhash,
                 lookupTableCache, pc, thrown>>
  /\ UNCHANGED <<feeVars, divVars, minVars>>

BuildItem ==
  /\ pc = "loop" /\ fn = "buildTransaction"
  /\ idx <= Len(innerTransactions)
  /\ LET tx == _makeTransaction(makeTxVersion, idx, innerTransactions[idx])
     IN  IF tx # {}
           THEN /\ txList' = Append(txList, CHOOSE t \in tx : TRUE)
                /\ idx' = idx + 1
                /\ UNCHANGED <<pc, thrown>>
           ELSE /\ pc' = "done" /\ thrown' = "makeTransaction"
                /\ UNCHANGED <<txList, idx>>
  /\ UNCHANGED <<fn, makeTxVersion, innerTransactions, recentBlockhash,
                 lookupTableCache, reported>>
  /\ UNCHANGED <<feeVars, divVars, minVars>>

ReturnTxList ==
  /\ pc = "loop" /\ idx > Len(innerTransactions)
  /\ pc' = "done"
  /\ UNCHANGED <<fn, makeTxVersion, innerTransactions, recentBlockhash,
                 lookupTableCache, idx, txList, reported, thrown>>
  /\ UNCHANGED <<feeVars, divVars, minVars>>

NextBuild ==
  \/ CheckTxVersion
  \/ UseRecentBlockhash
  \/ GetLatestBlockhash
  \/ CacheLookupTables
  \/ BuildSimpleItem
  \/ BuildItem
  \/ ReturnTxList

SpecBuild == InitBuild /\ [][NextBuild]_vars

(***************************************************************************)
(* What the claims are stated with: the quotient rounded up, the smaller   *)
(* of two integers, and the fee config and tier of the call in progress.   *)
(***************************************************************************)
Ceil(a, b) == (a + b - 1) \div b

Least(a, b) == IF a <= b THEN a ELSE b

OlderIsActive(c) == epochInfo.epoch < c.newerTransferFee.epoch

ActiveTier(c) == IF OlderIsActive(c) THEN c.olderTransferFee ELSE c.newerTransferFee

InactiveTier(c) == IF OlderIsActive(c) THEN c.newerTransferFee ELSE c.olderTransferFee

\* the amount and fee the engine is to return for a tier with basis points
\* bp and cap maxFee
ExpectedAmount(amt, bp, maxFee, add) ==
  IF ~add THEN amt
  ELSE IF bp = POINT THEN amt + maxFee
  ELSE LET T0 == Ceil(amt * POINT, POINT - bp)
       IN  IF T0 - amt > maxFee THEN amt + maxFee ELSE T0

ExpectedFee(amt, bp, maxFee, add) ==
  IF add /\ bp = POINT THEN maxFee
  ELSE Least(Ceil(ExpectedAmount(amt, bp, maxFee, add) * bp, POINT), maxFee)

\* C1: in fee-only mode the call returns the input amount and
\* fee = min(ceilDiv(amount * bp, 10000), maximumFee) of the active tier, so
\* the fee never exceeds maximumFee and is the rounded-up quotient whenever
\* that is within the cap.
C1_FeeOnly ==
  \A r \in res : \A c \in feeConfig :
    ~addFee =>
      LET bp     == ActiveTier(c).transferFeeBasisPoints
          maxFee == ActiveTier(c).maximumFee
          raw    == Ceil(amount * bp, POINT)
      IN  /\ ~r.threw
          /\ r.amount = {amount}
          /\ r.fee = {Least(raw, maxFee)}
          /\ \A f \in r.fee : f <= maxFee /\ (raw <= maxFee => f = raw)

C1_Witness ==
  \E r \in res : \E c \in feeConfig : \E f \in r.fee :
    /\ ~addFee
    /\ f > 1 /\ f < ActiveTier(c).maximumFee
    /\ f * POINT > amount * ActiveTier(c).transferFeeBasisPoints

\* C2: in gross-up mode the returned amount less the returned fee is the
\* requested amount.
C2_GrossUpNetsTarget ==
  \A r \in res : \A c \in feeConfig :
    addFee =>
      /\ ~r.threw
      /\ \E T \in r.amount : \E f \in r.fee : T - f = amount

C2_Witness ==
  \E r \in res : \E c \in feeConfig : \E T \in r.amount : \E f \in r.fee :
    /\ addFee
    /\ ActiveTier(c).transferFeeBasisPoints \notin {0, POINT}
    /\ f > 0 /\ f = ActiveTier(c).maximumFee
    /\ T = amount + ActiveTier(c).maximumFee
    /\ Ceil(amount * POINT, POINT - ActiveTier(c).transferFeeBasisPoints) > T

\* C3: in gross-up mode with bp # 10000 the returned amount is
\* amount + maximumFee when ceilDiv(amount * 10000, 10000 - bp) - amount
\* exceeds maximumFee and that quotient otherwise, the fee is
\* min(ceilDiv(TAmount * bp, 10000), maximumFee) on the returned amount, and
\* with bp = 0 the amount comes back unchanged with fee 0.
C3_GrossUpFormula ==
  \A r \in res : \A c \in feeConfig :
    (addFee /\ ActiveTier(c).transferFeeBasisPoints # POINT) =>
      LET bp     == ActiveTier(c).transferFeeBasisPoints
          maxFee == ActiveTier(c).maximumFee
          T0     == Ceil(amount * POINT, POINT - bp)
          T      == IF T0 - amount > maxFee THEN amount + maxFee ELSE T0
      IN  /\ ~r.threw
          /\ r.amount = {T}
          /\ r.fee = {Least(Ceil(T * bp, POINT), maxFee)}
          /\ bp = 0 => r.amount = {amount} /\ r.fee = {0}

C3_Witness ==
  \E r \in res : \E c \in feeConfig : \E T \in r.amount : \E f \in r.fee :
    /\ addFee
    /\ ActiveTier(c).transferFeeBasisPoints \notin {0, POINT}
    /\ T = Ceil(amount * POINT, POINT - ActiveTier(c).transferFeeBasisPoints)
    /\ T > amount + 1
    /\ f = T - amount /\ f < ActiveTier(c).maximumFee

\* C4: the fee of a gross-up call is the fee that fee-only mode computes on
\* the gross amount it returned, under the same fee config and epoch.
C4_RoundTrip ==
  \A r \in res : \A o \in feeOnly : \A c \in feeConfig :
    addFee => ~o.threw /\ o.amount = r.amount /\ o.fee = r.fee

C4_Witness ==
  \E r \in res : \E o \in feeOnly : \E c \in feeConfig :
    /\ addFee
    /\ ActiveTier(c).transferFeeBasisPoints = POINT
    /\ amount > 0 /\ amount < ActiveTier(c).maximumFee
    /\ o.fee = {ActiveTier(c).maximumFee}

\* C5: with a fee config the call uses the older tier exactly when
\* epochInfo.epoch < newerTransferFee.epoch and the newer tier otherwise;
\* expirationTime is present exactly when the older tier is used and is then
\* ((newerEpoch * slotsInEpoch) - absoluteSlot) * 400 / 1000; this holds for
\* every amount and both values of addFee.
C5_TierSelection ==
  \A r \in res : \A c \in feeConfig :
    LET tier == ActiveTier(c)
    IN  /\ r.amount = {ExpectedAmount(amount, tier.transferFeeBasisPoints,
                                      tier.maximumFee, addFee)}
        /\ r.fee = {ExpectedFee(amount, tier.transferFeeBasisPoints,
                                tier.maximumFee, addFee)}
        /\ (r.expirationTime # {}) <=> OlderIsActive(c)
        /\ \A e \in r.expirationTime :
             /\ e.num = ((c.newerTransferFee.epoch * epochInfo.slotsInEpoch)
                           - epochInfo.absoluteSlot) * 400
             /\ e.den = 1000

C5_Witness ==
  \E r \in res : \E c \in feeConfig : \E e \in r.expirationTime :
    /\ OlderIsActive(c)
    /\ e.num = 1200
    /\ r.fee = {ExpectedFee(amount, c.olderTransferFee.transferFeeBasisPoints,
                            c.olderTransferFee.maximumFee, addFee)}
    /\ r.fee # {ExpectedFee(amount, c.newerTransferFee.transferFeeBasisPoints,
                            c.newerTransferFee.maximumFee, addFee)}

\* C6: when the active tier has 10000 basis points a gross-up call returns
\* amount + maximumFee with fee maximumFee, and never divides by
\* 10000 - basisPoints = 0.
C6_FullFeeTier ==
  \A r \in res : \A c \in feeConfig :
    (addFee /\ ActiveTier(c).transferFeeBasisPoints = POINT) =>
      /\ ~r.threw
      /\ r.amount = {amount + ActiveTier(c).maximumFee}
      /\ r.fee = {ActiveTier(c).maximumFee}

C6_Witness ==
  \E r \in res : \E c \in feeConfig :
    /\ addFee /\ ActiveTier(c).transferFeeBasisPoints = POINT
    /\ InactiveTier(c).transferFeeBasisPoints # POINT
    /\ amount > 0 /\ ActiveTier(c).maximumFee > 0
    /\ r.amount = {amount + ActiveTier(c).maximumFee}

\* C7: without a fee config the call returns the input amount with fee
\* absent and expirationTime absent, for every amount, epoch and addFee.
C7_NoFeeExtension ==
  \A r \in res :
    feeConfig = {} =>
      /\ ~r.threw
      /\ r.amount = {amount}
      /\ r.fee = {}
      /\ r.expirationTime = {}

C7_Witness ==
  \E r \in res :
    /\ feeConfig = {} /\ addFee /\ amount > 0 /\ epochInfo.epoch > 0
    /\ r.amount = {amount}

\* C8: for a >= 0 and b > 0 BNDivCeil(a, b) is floor(a/b) + 1 when a mod b
\* is nonzero and floor(a/b) otherwise: the least q with q * b >= a.
C8_CeilingDivision ==
  \A q \in quo :
    /\ q = (IF bn1 % bn2 # 0 THEN (bn1 \div bn2) + 1 ELSE bn1 \div bn2)
    /\ q * bn2 >= bn1
    /\ \A p \in 0..(q - 1) : p * bn2 < bn1
    /\ (bn1 = 10 /\ bn2 = 3) => q = 4
    /\ (bn1 = 9 /\ bn2 = 3) => q = 3
    /\ (bn1 = 0 /\ bn2 = 5) => q = 0

C8_Witness == bn1 = 10 /\ bn2 = 3 /\ quo = {4}

\* C9: minExpirationTime is absent when both arguments are absent, the
\* defined one when exactly one is absent, the smaller when both are
\* defined, and the same for either order of the arguments.
C9_MinExpirationTime ==
  \A m \in minExp :
    /\ (expirationTime1 = {} /\ expirationTime2 = {}) => m = {}
    /\ (expirationTime1 = {} /\ expirationTime2 # {}) => m = expirationTime2
    /\ (expirationTime1 # {} /\ expirationTime2 = {}) => m = expirationTime1
    /\ \A x \in expirationTime1 : \A y \in expirationTime2 :
         /\ m \in {{x}, {y}}
         /\ \A z \in m : z.num * x.den <= x.num * z.den
                      /\ z.num * y.den <= y.num * z.den
    /\ m = minExpirationTime(expirationTime2, expirationTime1)

C9_Witness ==
  \E x \in expirationTime1 : \E y \in expirationTime2 :
    /\ x.num = 2000 /\ y.num = 1200
    /\ minExp = {{y}}

\* C10: in buildSimpleTransaction and in buildTransaction a failure to
\* construct the transaction of one inner transaction is caught and
\* reported, and the call returns the transactions of all other inner
\* transactions in input order.
Constructed ==
  [i \in DOMAIN innerTransactions |->
     makeTxVersion \in {"V0", "LEGACY"} /\ innerTransactions[i].constructible]

RECURSIVE Surviving(_)
Surviving(n) ==
  IF n = 0 THEN <<>>
  ELSE IF Constructed[n]
         THEN Append(Surviving(n - 1), [item |-> n, version |-> makeTxVersion])
         ELSE Surviving(n - 1)

RECURSIVE Failing(_)
Failing(n) ==
  IF n = 0 THEN <<>>
  ELSE IF Constructed[n] THEN Failing(n - 1) ELSE Append(Failing(n - 1), n)

C10_BatchSurvivesFailedItem ==
  (pc = "done" /\ thrown \notin {"version", "blockhash", "lookup"}) =>
    /\ thrown = "none"
    /\ txList = Surviving(Len(innerTransactions))
    /\ reported = Failing(Len(innerTransactions))

====
